---- MODULE Spec2Model ----
(***************************************************************************)
(* Model of fn_base (function_holder.cpp): generic_guard, functor_extension,*)
(* generic_functor (primary template and non-polymorphic specialization)   *)
(* and variadic_functor.                                                   *)
(*                                                                         *)
(* SpecGuard   : one owning scope declaring generic_guard objects, left by *)
(*               fall-through, early return or a propagating exception.    *)
(* SpecFunctor : functor wrappers constructed, copied, moved, assigned,    *)
(*               invoked (directly or through a base handle), destroyed.   *)
(***************************************************************************)
EXTENDS Integers, Sequences, FiniteSets, TLC

\* ------------------------------------------------------------------ bounds
MaxGuards == 2
NumActions == 2
MaxOps == 2
MaxWrappers == 2
MaxCalls == 3

Guards == 1..MaxGuards
Actions == 1..NumActions
Wrappers == 1..MaxWrappers
\* the callables of the example: fn_1 = [x = 13]() mutable {...}, fn_2 = [x = 3.14]() {...}
Closures == {"fn_1", "fn_2"}

VARIABLES
    \* ---- generic_guard part
    gstate,     \* per guard object: "none" | "alive" | "destroyed" | "aborted"
    m_fn,       \* per guard object: the stored action (generic_guard::m_fn), 0 if none
    g_ctor,     \* per guard object: the action its constructor received
    g_ran,      \* per guard object: the actions whose body this object invoked, in order
    g_moved,    \* per guard object: it has been the source of a move
    g_failed,   \* per guard object: its action failed while invoked by the destructor
    effect,     \* per action: how often its body has run (closed = TRUE iff effect > 0)
    pc,         \* "body" | "unwinding" | "left" | "terminated"
    path,       \* "none" | "normal" | "return" | "throw": how the scope is being left
    handled,    \* a handler encloses the scope (an exception leaving it is caught)
    dtor_noexcept, \* ~generic_guard is noexcept (implicitly so unless ~F is noexcept(false))
    gops,       \* number of copy/move/assignment operations performed so far
    \* ---- functor part
    wstate,     \* per wrapper object: "none" | "alive" | "destroyed"
    wkind,      \* per wrapper object: "generic" | "variadic" (class template), "none"
    wbase,      \* per wrapper object: the base type D it was instantiated with
    wform,      \* per wrapper object: "flat" | "inherit", the class definition selected
    wsig,       \* per wrapper object: <<Args modes, F's parameter modes>> (variadic), <<>>
    m_func,     \* per wrapper object: the stored callable [id, x]; x is state captured by value
    hits,       \* per callable id: how often its body ran (a counter captured by reference)
    ninv,       \* per callable id: call operator invocations made on wrappers holding it
    baseRuns,   \* how often an implementation of the call operator belonging to D ran
    lastCall,   \* what the caller of the latest call operator invocation observed
    ncalls      \* number of call operator invocations so far

gvars == <<gstate, m_fn, g_ctor, g_ran, g_moved, g_failed, effect, pc, path,
           handled, dtor_noexcept, gops>>

fvars == <<wstate, wkind, wbase, wform, wsig, m_func, hits, ninv, baseRuns,
           lastCall, ncalls>>

vars == <<gvars, fvars>>

\* ------------------------------------------------------------------ generic_guard

\* generic_guard(T&& fn) : m_fn(std::forward<T>(fn)) {}  -- stores, invokes nothing
generic_guard_ctor(fn) == [m_fn |-> fn, ran |-> <<>>]

\* F's own move constructor, as for a closure type: memberwise, the source keeps
\* its captures (references and trivially copyable captures are copied).
F_move(fn) == [dst |-> fn, src |-> fn]

\* generic_guard(const generic_guard&) = default
generic_guard_copy_ctor(src_fn) == [m_fn |-> src_fn, src |-> src_fn, ran |-> <<>>]

\* generic_guard(generic_guard&&) = default
generic_guard_move_ctor(src_fn) ==
    [m_fn |-> F_move(src_fn).dst, src |-> F_move(src_fn).src, ran |-> <<>>]

\* generic_guard& operator=(const generic_guard&) = default
generic_guard_copy_assign(dst_fn, src_fn) == [m_fn |-> src_fn, src |-> src_fn, ran |-> <<>>]

\* generic_guard& operator=(generic_guard&&) = default
generic_guard_move_assign(dst_fn, src_fn) ==
    [m_fn |-> F_move(src_fn).dst, src |-> F_move(src_fn).src, ran |-> <<>>]

\* a destructor that forgets the call
generic_guard_dtor_empty(fn, fails) == [ran |-> <<>>, raised |-> FALSE]

\* a destructor that calls the action again when the first call failed
generic_guard_dtor_retry(fn, fails) ==
    [ran |-> IF fails THEN <<fn, fn>> ELSE <<fn>>, raised |-> fails]

\* ~generic_guard() { m_fn(); }  -- one call; `fails` is the call's outcome
generic_guard_dtor(fn, fails) == [ran |-> <<fn>>, raised |-> fails]

nGuards == Cardinality({g \in Guards : gstate[g] # "none"})

\* the automatic objects of the scope still alive, the last constructed first destroyed
TopAlive == CHOOSE g \in Guards : /\ gstate[g] = "alive"
                                  /\ \A h \in Guards : gstate[h] = "alive" => h <= g

Bump(f, as) == [a \in Actions |-> f[a] + Len(SelectSeq(as, LAMBDA x : x = a))]

\* no call operator has been called yet
NoCall == [kind |-> "none"]

\* no guard and no wrapper exists yet
GuardInit ==
    /\ gstate = [g \in Guards |-> "none"]
    /\ m_fn = [g \in Guards |-> 0]
    /\ g_ctor = [g \in Guards |-> 0]
    /\ g_ran = [g \in Guards |-> <<>>]
    /\ g_moved = [g \in Guards |-> FALSE]
    /\ g_failed = [g \in Guards |-> FALSE]
    /\ effect = [a \in Actions |-> 0]
    /\ pc = "body"
    /\ path = "none"
    /\ handled \in BOOLEAN
    /\ dtor_noexcept \in BOOLEAN
    /\ gops = 0
    /\ wstate = [w \in Wrappers |-> "none"]
    /\ wkind = [w \in Wrappers |-> "none"]
    /\ wbase = [w \in Wrappers |-> "none"]
    /\ wform = [w \in Wrappers |-> "none"]
    /\ wsig = [w \in Wrappers |-> <<>>]
    /\ m_func = [w \in Wrappers |-> [id |-> "none", x |-> 0]]
    /\ hits = [c \in Closures |-> 0]
    /\ ninv = [c \in Closures |-> 0]
    /\ baseRuns = 0
    /\ lastCall = NoCall
    /\ ncalls = 0

\* generic_guard<F> guard(fn);
GuardConstruct ==
    /\ UNCHANGED fvars
    /\ pc = "body"
    /\ nGuards < MaxGuards
    /\ \E a \in Actions :
         LET g == nGuards + 1
             r == generic_guard_ctor(a) IN
         /\ gstate' = [gstate EXCEPT ![g] = "alive"]
         /\ m_fn' = [m_fn EXCEPT ![g] = r.m_fn]
         /\ g_ctor' = [g_ctor EXCEPT ![g] = a]
         /\ g_ran' = [g_ran EXCEPT ![g] = r.ran]
         /\ effect' = Bump(effect, r.ran)
    /\ UNCHANGED <<g_moved, g_failed, pc, path, handled, dtor_noexcept, gops>>

\* generic_guard<F> b(a);
GuardCopyConstruct ==
    /\ UNCHANGED fvars
    /\ pc = "body"
    /\ nGuards < MaxGuards
    /\ gops < MaxOps
    /\ \E s \in Guards :
         /\ gstate[s] = "alive"
         /\ LET g == nGuards + 1
                r == generic_guard_copy_ctor(m_fn[s]) IN
            /\ gstate' = [gstate EXCEPT ![g] = "alive"]
            /\ m_fn' = [m_fn EXCEPT ![g] = r.m_fn, ![s] = r.src]
            /\ g_ctor' = [g_ctor EXCEPT ![g] = m_fn[s]]
            /\ g_ran' = [g_ran EXCEPT ![g] = r.ran]
            /\ effect' = Bump(effect, r.ran)
    /\ gops' = gops + 1
    /\ UNCHANGED <<g_moved, g_failed, pc, path, handled, dtor_noexcept>>

\* generic_guard<F> b(std::move(a));
GuardMoveConstruct ==
    /\ UNCHANGED fvars
    /\ pc = "body"
    /\ nGuards < MaxGuards
    /\ gops < MaxOps
    /\ \E s \in Guards :
         /\ gstate[s] = "alive"
         /\ LET g == nGuards + 1
                r == generic_guard_move_ctor(m_fn[s]) IN
            /\ gstate' = [gstate EXCEPT ![g] = "alive"]
            /\ m_fn' = [m_fn EXCEPT ![g] = r.m_fn, ![s] = r.src]
            /\ g_ctor' = [g_ctor EXCEPT ![g] = m_fn[s]]
            /\ g_ran' = [g_ran EXCEPT ![g] = r.ran]
            /\ g_moved' = [g_moved EXCEPT ![s] = TRUE]
            /\ effect' = Bump(effect, r.ran)
    /\ gops' = gops + 1
    /\ UNCHANGED <<g_failed, pc, path, handled, dtor_noexcept>>

\* d = s;
GuardCopyAssign ==
    /\ UNCHANGED fvars
    /\ pc = "body"
    /\ gops < MaxOps
    /\ \E d \in Guards, s \in Guards :
         /\ d # s /\ gstate[d] = "alive" /\ gstate[s] = "alive"
         /\ LET r == generic_guard_copy_assign(m_fn[d], m_fn[s]) IN
            /\ m_fn' = [m_fn EXCEPT ![d] = r.m_fn, ![s] = r.src]
            /\ g_ran' = [g_ran EXCEPT ![d] = g_ran[d] \o r.ran]
            /\ g_moved' = [g_moved EXCEPT ![d] = FALSE]
            /\ effect' = Bump(effect, r.ran)
    /\ gops' = gops + 1
    /\ UNCHANGED <<gstate, g_ctor, g_failed, pc, path, handled, dtor_noexcept>>

\* d = std::move(s);
GuardMoveAssign ==
    /\ UNCHANGED fvars
    /\ pc = "body"
    /\ gops < MaxOps
    /\ \E d \in Guards, s \in Guards :
         /\ d # s /\ gstate[d] = "alive" /\ gstate[s] = "alive"
         /\ LET r == generic_guard_move_assign(m_fn[d], m_fn[s]) IN
            /\ m_fn' = [m_fn EXCEPT ![d] = r.m_fn, ![s] = r.src]
            /\ g_ran' = [g_ran EXCEPT ![d] = g_ran[d] \o r.ran]
            /\ g_moved' = [g_moved EXCEPT ![d] = FALSE, ![s] = TRUE]
            /\ effect' = Bump(effect, r.ran)
    /\ gops' = gops + 1
    /\ UNCHANGED <<gstate, g_ctor, g_failed, pc, path, handled, dtor_noexcept>>

\* Control leaves the scope: the closing brace, a return statement, or an exception
\* thrown in the body.  With no enclosing handler it is implementation-defined
\* whether the stack is unwound before std::terminate.
ExitScope ==
    /\ UNCHANGED fvars
    /\ pc = "body"
    /\ \E k \in {"normal", "return", "throw"} :
         /\ path' = k
         /\ IF k = "throw" /\ ~handled
               THEN pc' \in {"unwinding", "terminated"}
               ELSE pc' = "unwinding"
    /\ UNCHANGED <<gstate, m_fn, g_ctor, g_ran, g_moved, g_failed, effect,
                   handled, dtor_noexcept, gops>>

\* One destructor call of the unwinding: ~generic_guard of the last constructed
\* object still alive.  A failing action leaves a noexcept destructor through
\* std::terminate; it leaves a noexcept(false) destructor as an exception (the
\* object's members are destroyed), which terminates when one is already in flight.
DestroyStep ==
    /\ UNCHANGED fvars
    /\ pc = "unwinding"
    /\ \E g \in Guards : gstate[g] = "alive"
    /\ \E fails \in BOOLEAN :
         LET g == TopAlive
             r == generic_guard_dtor(m_fn[g], fails)
             escapes == r.raised /\ ~dtor_noexcept /\ path # "throw" IN
         /\ g_ran' = [g_ran EXCEPT ![g] = g_ran[g] \o r.ran]
         /\ effect' = Bump(effect, r.ran)
         /\ g_failed' = [g_failed EXCEPT ![g] = r.raised]
         /\ gstate' = [gstate EXCEPT ![g] =
                          IF r.raised /\ ~escapes THEN "aborted" ELSE "destroyed"]
         /\ IF r.raised /\ ~escapes THEN pc' = "terminated"
            ELSE IF escapes /\ ~handled THEN pc' \in {"unwinding", "terminated"}
            ELSE pc' = "unwinding"
         /\ path' = IF escapes THEN "throw" ELSE path
    /\ UNCHANGED <<m_fn, g_ctor, g_moved, handled, dtor_noexcept, gops>>

\* All automatic objects are gone: control is past the scope, in the enclosing
\* handler when an exception was caught; an uncaught exception ends in std::terminate.
LeaveScope ==
    /\ UNCHANGED fvars
    /\ pc = "unwinding"
    /\ \A g \in Guards : gstate[g] # "alive"
    /\ pc' = IF path = "throw" /\ ~handled THEN "terminated" ELSE "left"
    /\ UNCHANGED <<gstate, m_fn, g_ctor, g_ran, g_moved, g_failed, effect, path,
                   handled, dtor_noexcept, gops>>

\* ------------------------------------------------------------------ functor wrappers

\* Base types D a wrapper is instantiated with: functor_extension (pure virtual call
\* operator), a polymorphic base whose virtual call operator has a body of its own,
\* bool (no class type), a class without virtual members.
Bases == {"functor_extension", "default_base", "bool", "plain_struct"}

\* The base of the variadic wrappers: declares virtual void operator()(Args...).
VariadicBase == "args_base"

is_class(D) == D # "bool"

has_virtual(D) == D \in {"functor_extension", "default_base", "args_base"}

\* std::is_polymorphic<D>::value
is_polymorphic(D) == is_class(D) /\ has_virtual(D)

\* std::enable_if<cond>::type: void, or no such member (a substitution failure)
enable_if(cond) == IF cond THEN "void" ELSE "no_type"

\* a specialization written without the negation
specialization_matches_unnegated(D, third) == enable_if(is_polymorphic(D)) = third

\* generic_functor<F, D, typename std::enable_if<!std::is_polymorphic<D>::value>::type>
\* matches generic_functor<F, D, third> iff the third argument is that type
specialization_matches(D, third) == enable_if(~is_polymorphic(D)) = third

\* generic_functor<F, D>: the third argument defaults to void; a matching partial
\* specialization is preferred to the primary template
generic_functor_select(F, D) ==
    IF specialization_matches(D, "void") THEN "flat" ELSE "inherit"

Positions == {1, 2}
Vals == {0, 1}
Modes == {"val", "lref"}
Outcomes == {"none", "E1"}
ArgTuples == [Positions -> Vals]
ModeTuples == [Positions -> Modes]
\* the callable takes all its parameters the same way
FModeTuples == {[i \in Positions |-> m] : m \in Modes}

\* what the callable's body stores into a parameter it may write
F_write(v) == 1 - v

\* The stored callable's body, called with the lvalues p: it counts (its own captured
\* x and the counter it refers to), reads its parameters, writes those it takes by
\* reference, and ends with outcome o.
F_call(mf, fmodes, p, o) ==
    [m_func |-> [mf EXCEPT !.x = mf.x + 1],
     ran |-> <<mf.id>>,
     received |-> p,
     p |-> [i \in DOMAIN p |-> IF fmodes[i] = "lref" THEN F_write(p[i]) ELSE p[i]],
     raised |-> o]

\* a call operator that swallows what the callable raises
generic_functor_call_swallow(mf, o) ==
    LET r == F_call(mf, <<>>, <<>>, o) IN
    [m_func |-> r.m_func, ran |-> r.ran, raised |-> "none"]

\* generic_functor (primary template): virtual void operator()() override { m_func(); }
generic_functor_call(mf, o) ==
    LET r == F_call(mf, <<>>, <<>>, o) IN
    [m_func |-> r.m_func, ran |-> r.ran, raised |-> r.raised]

\* generic_functor (non-polymorphic specialization): void operator()() { m_func(); }
flat_functor_call(mf, o) ==
    LET r == F_call(mf, <<>>, <<>>, o) IN
    [m_func |-> r.m_func, ran |-> r.ran, raised |-> r.raised]

\* a call operator that hands the arguments over in reverse order
variadic_functor_call_reversed(mf, argmodes, fmodes, a, o) ==
    LET rev(t) == [i \in Positions |-> t[3 - i]]
        r == F_call(mf, fmodes, rev(a), o) IN
    [m_func |-> r.m_func, ran |-> r.ran, raised |-> r.raised,
     received |-> r.received,
     a |-> [i \in Positions |-> IF argmodes[i] = "lref" THEN rev(r.p)[i] ELSE a[i]]]

\* variadic_functor: virtual void operator()(Args...args) override { m_func(args...); }
\* Each parameter args_i is a copy of the caller's object (Args_i by value) or an
\* alias of it (Args_i a reference); m_func receives the parameters as lvalues.
variadic_functor_call(mf, argmodes, fmodes, a, o) ==
    LET r == F_call(mf, fmodes, a, o) IN
    [m_func |-> r.m_func, ran |-> r.ran, raised |-> r.raised,
     received |-> r.received,
     a |-> [i \in Positions |-> IF argmodes[i] = "lref" THEN r.p[i] ELSE a[i]]]

\* a call through a D handle bound statically to D's own operator
final_overrider_static(form) == "D"

\* The function a call of the call operator runs.  Through a glvalue of static type
\* D (D&, *D, *owning pointer) the call is virtual: the final overrider of the
\* object's dynamic type, which is the wrapper's operator() for a wrapper derived
\* from D.
final_overrider(form) == IF form = "inherit" THEN "wrapper" ELSE "D"

\* m_func declared static: one callable shared by all the wrapper objects
m_func_owners_static(w) == {v \in Wrappers : wstate[v] = "alive"}

\* F m_func;  a non-static data member: each wrapper object has its own callable
m_func_owners(w) == {w}

\* a copy constructor that also runs the callable
defaulted_copy_invoking(mf) == [m_func |-> mf, src |-> mf, ran |-> <<mf.id>>]

\* generic_functor(const generic_functor&) = default; operator=(const generic_functor&)
\* = default (the same in the three class templates): copies m_func
defaulted_copy(mf) == [m_func |-> mf, src |-> mf, ran |-> <<>>]

\* generic_functor(generic_functor&&) = default; operator=(generic_functor&&) = default
defaulted_move(mf) == [m_func |-> F_move(mf).dst, src |-> F_move(mf).src, ran |-> <<>>]

\* generic_functor(T&& fn, D_Args&&... args) : D(args...), m_func(std::forward<T>(fn))
functor_ctor(c) == [m_func |-> [id |-> c, x |-> 0], ran |-> <<>>]

nWrappers == Cardinality({w \in Wrappers : wstate[w] # "none"})

BumpC(f, cs) == [c \in Closures |-> f[c] + Len(SelectSeq(cs, LAMBDA y : y = c))]

\* no wrapper exists yet; no guard is in use
FunctorInit ==
    /\ wstate = [w \in Wrappers |-> "none"]
    /\ wkind = [w \in Wrappers |-> "none"]
    /\ wbase = [w \in Wrappers |-> "none"]
    /\ wform = [w \in Wrappers |-> "none"]
    /\ wsig = [w \in Wrappers |-> <<>>]
    /\ m_func = [w \in Wrappers |-> [id |-> "none", x |-> 0]]
    /\ hits = [c \in Closures |-> 0]
    /\ ninv = [c \in Closures |-> 0]
    /\ baseRuns = 0
    /\ lastCall = NoCall
    /\ ncalls = 0
    /\ gstate = [g \in Guards |-> "none"]
    /\ m_fn = [g \in Guards |-> 0]
    /\ g_ctor = [g \in Guards |-> 0]
    /\ g_ran = [g \in Guards |-> <<>>]
    /\ g_moved = [g \in Guards |-> FALSE]
    /\ g_failed = [g \in Guards |-> FALSE]
    /\ effect = [a \in Actions |-> 0]
    /\ pc = "body"
    /\ path = "none"
    /\ handled = TRUE
    /\ dtor_noexcept = TRUE
    /\ gops = 0

\* generic_functor<F, D> w(fn);  The wrappers alive together are instantiated with
\* the same base type D (the handles of one container).
WConstructGeneric ==
    /\ UNCHANGED gvars
    /\ nWrappers < MaxWrappers
    /\ \A v \in Wrappers : wkind[v] # "variadic"
    /\ \E D \in Bases, c \in Closures :
         LET w == nWrappers + 1
             r == functor_ctor(c) IN
         /\ \A v \in Wrappers : wstate[v] = "alive" => wbase[v] = D
         /\ wstate' = [wstate EXCEPT ![w] = "alive"]
         /\ wkind' = [wkind EXCEPT ![w] = "generic"]
         /\ wbase' = [wbase EXCEPT ![w] = D]
         /\ wform' = [wform EXCEPT ![w] = generic_functor_select(c, D)]
         /\ m_func' = [m_func EXCEPT ![w] = r.m_func]
         /\ hits' = BumpC(hits, r.ran)
    /\ UNCHANGED <<wsig, ninv, baseRuns, lastCall, ncalls>>

\* variadic_functor<F, D, Args...> w(fn);  One instantiation (one Args..., one
\* callable signature) is in use in a run, and the zero-argument and the variadic
\* wrappers, whose callables and bases differ in signature, are exercised in
\* separate runs.
WConstructVariadic ==
    /\ UNCHANGED gvars
    /\ nWrappers < MaxWrappers
    /\ \A v \in Wrappers : wkind[v] # "generic"
    /\ \E c \in Closures, argmodes \in ModeTuples, fmodes \in FModeTuples :
         LET w == nWrappers + 1
             r == functor_ctor(c) IN
         /\ \A v \in Wrappers : wkind[v] = "variadic" => wsig[v] = <<argmodes, fmodes>>
         /\ wstate' = [wstate EXCEPT ![w] = "alive"]
         /\ wkind' = [wkind EXCEPT ![w] = "variadic"]
         /\ wbase' = [wbase EXCEPT ![w] = VariadicBase]
         /\ wform' = [wform EXCEPT ![w] = "inherit"]
         /\ wsig' = [wsig EXCEPT ![w] = <<argmodes, fmodes>>]
         /\ m_func' = [m_func EXCEPT ![w] = r.m_func]
         /\ hits' = BumpC(hits, r.ran)
    /\ UNCHANGED <<ninv, baseRuns, lastCall, ncalls>>

SameType(d, s) == wkind[d] = wkind[s] /\ wbase[d] = wbase[s] /\ wsig[d] = wsig[s]

\* W b(a);  /  W b(std::move(a));
WCopyOrMoveConstruct ==
    /\ UNCHANGED gvars
    /\ nWrappers < MaxWrappers
    /\ \E s \in Wrappers, how \in {"copy", "move"} :
         /\ wstate[s] = "alive"
         /\ LET w == nWrappers + 1
                r == IF how = "copy" THEN defaulted_copy(m_func[s])
                                     ELSE defaulted_move(m_func[s]) IN
            /\ wstate' = [wstate EXCEPT ![w] = "alive"]
            /\ wkind' = [wkind EXCEPT ![w] = wkind[s]]
            /\ wbase' = [wbase EXCEPT ![w] = wbase[s]]
            /\ wform' = [wform EXCEPT ![w] = wform[s]]
            /\ wsig' = [wsig EXCEPT ![w] = wsig[s]]
            /\ m_func' = [m_func EXCEPT ![w] = r.m_func, ![s] = r.src]
            /\ hits' = BumpC(hits, r.ran)
    /\ UNCHANGED <<ninv, baseRuns, lastCall, ncalls>>

\* d = s;  /  d = std::move(s);
WAssign ==
    /\ UNCHANGED gvars
    /\ \E d \in Wrappers, s \in Wrappers, how \in {"copy", "move"} :
         /\ d # s /\ wstate[d] = "alive" /\ wstate[s] = "alive"
         /\ SameType(d, s)
         /\ LET r == IF how = "copy" THEN defaulted_copy(m_func[s])
                                     ELSE defaulted_move(m_func[s]) IN
            /\ m_func' = [m_func EXCEPT ![d] = r.m_func, ![s] = r.src]
            /\ hits' = BumpC(hits, r.ran)
    /\ UNCHANGED <<wstate, wkind, wbase, wform, wsig, ninv, baseRuns, lastCall, ncalls>>

\* h();  with h a D handle (reference, pointer, owning pointer) to a wrapper derived
\* from D;  w();  on the object itself for a flat wrapper, which has no base
WInvoke ==
    /\ UNCHANGED gvars
    /\ ncalls < MaxCalls
    /\ \E w \in Wrappers, o \in Outcomes :
         /\ wstate[w] = "alive" /\ wkind[w] = "generic"
         /\ LET via == IF wform[w] = "inherit" THEN "base" ELSE "object"
                target == IF via = "base" THEN final_overrider(wform[w]) ELSE "wrapper"
                r == IF target = "D"
                        THEN [m_func |-> m_func[w], ran |-> <<>>, raised |-> "none"]
                     ELSE IF wform[w] = "flat" THEN flat_functor_call(m_func[w], o)
                     ELSE generic_functor_call(m_func[w], o) IN
            /\ m_func' = [v \in Wrappers |->
                            IF v \in m_func_owners(w) THEN r.m_func ELSE m_func[v]]
            /\ hits' = BumpC(hits, r.ran)
            /\ ninv' = [ninv EXCEPT ![m_func[w].id] = @ + 1]
            /\ baseRuns' = IF target = "D" THEN baseRuns + 1 ELSE baseRuns
            /\ lastCall' = [kind |-> "generic", via |-> via,
                            raised |-> o, seen |-> r.raised, ran |-> r.ran,
                            held |-> m_func[w].id, holds |-> r.m_func.id]
    /\ ncalls' = ncalls + 1
    /\ UNCHANGED <<wstate, wkind, wbase, wform, wsig>>

\* The same call made on the callable itself: f(a...)
F_direct(mf, fmodes, a, o) == F_call(mf, fmodes, a, o).p

\* h(a...);  with h a D handle to a variadic_functor
WInvokeVariadic ==
    /\ UNCHANGED gvars
    /\ ncalls < MaxCalls
    /\ \E w \in Wrappers, a \in ArgTuples, o \in Outcomes :
         /\ wstate[w] = "alive" /\ wkind[w] = "variadic"
         /\ LET target == final_overrider(wform[w])
                r == IF target = "D"
                        THEN [m_func |-> m_func[w], ran |-> <<>>, raised |-> "none",
                              received |-> <<>>, a |-> a]
                     ELSE variadic_functor_call(m_func[w], wsig[w][1], wsig[w][2], a, o) IN
            /\ m_func' = [v \in Wrappers |->
                            IF v \in m_func_owners(w) THEN r.m_func ELSE m_func[v]]
            /\ hits' = BumpC(hits, r.ran)
            /\ ninv' = [ninv EXCEPT ![m_func[w].id] = @ + 1]
            /\ baseRuns' = IF target = "D" THEN baseRuns + 1 ELSE baseRuns
            /\ lastCall' = [kind |-> "variadic", via |-> "base",
                            raised |-> o, seen |-> r.raised, ran |-> r.ran,
                            held |-> m_func[w].id, holds |-> r.m_func.id,
                            argmodes |-> wsig[w][1], fmodes |-> wsig[w][2],
                            before |-> a, after |-> r.a, received |-> r.received,
                            direct |-> F_direct(m_func[w], wsig[w][2], a, o)]
    /\ ncalls' = ncalls + 1
    /\ UNCHANGED <<wstate, wkind, wbase, wform, wsig>>

\* ~generic_functor() = default: the wrapper's lifetime ends, m_func is destroyed.
\* The wrappers are destroyed in the reverse order of their construction.
WDestroy ==
    /\ UNCHANGED gvars
    /\ \E w \in Wrappers :
         /\ wstate[w] = "alive"
         /\ \A v \in Wrappers : wstate[v] = "alive" => v <= w
         /\ wstate' = [wstate EXCEPT ![w] = "destroyed"]
         /\ m_func' = [m_func EXCEPT ![w] = [id |-> "none", x |-> 0]]
         /\ wbase' = [wbase EXCEPT ![w] = "none"]
         /\ wform' = [wform EXCEPT ![w] = "none"]
    /\ UNCHANGED <<wkind, wsig, hits, ninv, baseRuns, lastCall, ncalls>>

FunctorNext ==
    \/ WConstructGeneric
    \/ WConstructVariadic
    \/ WCopyOrMoveConstruct
    \/ WAssign
    \/ WInvoke
    \/ WInvokeVariadic
    \/ WDestroy

SpecFunctor == FunctorInit /\ [][FunctorNext]_vars

GuardNext ==
    \/ GuardConstruct
    \/ GuardCopyConstruct
    \/ GuardMoveConstruct
    \/ GuardCopyAssign
    \/ GuardMoveAssign
    \/ ExitScope
    \/ DestroyStep
    \/ LeaveScope

SpecGuard == GuardInit /\ [][GuardNext]_vars

\* ------------------------------------------------------------------ generic_guard: properties

C2_MovedFromNeverInvokes ==
    /\ \A g \in Guards : g_moved[g] => g_ran[g] = <<>>
    /\ (pc = "left" /\ nGuards = 2 /\ gops = 1 /\ g_moved[1]) => effect[g_ctor[1]] = 1

\* C9: the action a guard invokes at its destruction is the one it was constructed
\* with, whatever was done to the guard in between (assignments included).
C9_BindingFixed ==
    \A g \in Guards : gstate[g] = "destroyed" => g_ran[g] = <<g_ctor[g]>>

\* C10: a guard whose action fails while the destructor invokes it has invoked the
\* action exactly once, and its destruction was not skipped: the object is
\* destroyed, or the program has terminated inside its destructor; no guard ever
\* invokes its action twice.
C10_FailedActionNotRepeated ==
    \A g \in Guards :
        /\ Len(g_ran[g]) <= 1
        /\ g_failed[g] =>
              /\ Len(g_ran[g]) = 1
              /\ gstate[g] = "destroyed" \/ (gstate[g] = "aborted" /\ pc = "terminated")

C10_Witness ==
    \E g \in Guards : g_failed[g] /\ gstate[g] = "aborted" /\ pc = "terminated"

\* ------------------------------------------------------------------ functor wrappers: properties

\* C3: a call through a D handle to a generic_functor derived from a polymorphic D
\* runs the stored callable, exactly once, on every such call, and never an
\* implementation of the call operator that belongs to D.
C3_PolymorphicDispatch ==
    /\ baseRuns = 0
    /\ (lastCall.kind = "generic" /\ lastCall.via = "base") =>
           lastCall.ran = <<lastCall.held>>

C3_Witness ==
    /\ lastCall.kind = "generic"
    /\ lastCall.via = "base"
    /\ \E w \in Wrappers :
         /\ wstate[w] = "alive"
         /\ wbase[w] = "default_base"
         /\ m_func[w] = [id |-> lastCall.held, x |-> 2]

\* C4: an invocation of one handle runs that handle's own closure only: it advances
\* the captured state of exactly one wrapper, the one holding the closure that ran,
\* leaves every other wrapper's callable as it was, and counts for no other closure.
C4_HandlesIsolated ==
    [][ncalls' = ncalls + 1 =>
          \E i \in Wrappers :
              /\ wstate[i] = "alive"
              /\ lastCall'.held = m_func[i].id
              /\ lastCall'.ran = <<m_func[i].id>>
              /\ m_func'[i] = [m_func[i] EXCEPT !.x = m_func[i].x + 1]
              /\ \A j \in Wrappers \ {i} : m_func'[j] = m_func[j]
              /\ \A c \in Closures :
                    hits'[c] = hits[c] + (IF c = m_func[i].id THEN 1 ELSE 0)]_vars

C4_Witness ==
    /\ wstate[1] = "alive" /\ wstate[2] = "alive"
    /\ wform[1] = "inherit" /\ wform[2] = "inherit"
    /\ wbase[1] = "functor_extension" /\ wbase[2] = "functor_extension"
    /\ m_func[1] = [id |-> "fn_1", x |-> 1]
    /\ m_func[2] = [id |-> "fn_2", x |-> 2]
    /\ hits = [c \in Closures |-> IF c = "fn_1" THEN 1 ELSE 2]

\* the callable can be called with arguments of the types Args...
Accepts(argmodes, fmodes) ==
    \A i \in Positions : fmodes[i] = "lref" => argmodes[i] = "lref"

C6_OnceperInvocation ==
    \A c \in Closures : hits[c] = ninv[c]

C6_Witness ==
    /\ wstate[1] = "alive" /\ wstate[2] = "alive"
    /\ wform[1] = "flat" /\ wform[2] = "flat"
    /\ m_func[1] = [id |-> "fn_1", x |-> 1]
    /\ m_func[2] = [id |-> "fn_1", x |-> 3]
    /\ hits["fn_1"] = 3
    /\ ncalls = 3

\* C7: generic_functor<F, D> is the class derived from D exactly when D is a class
\* with virtual members, the flat class otherwise; it is one of the two, and for
\* one D it is the same whatever the callable.
C7_FormSelection ==
    /\ \A w \in Wrappers :
          (wstate[w] = "alive" /\ wkind[w] = "generic") =>
              /\ wform[w] \in {"flat", "inherit"}
              /\ wform[w] = "inherit" <=> wbase[w] \in {"functor_extension", "default_base"}
    /\ \A w, v \in Wrappers :
          (wstate[w] = "alive" /\ wstate[v] = "alive" /\ wkind[w] = "generic"
             /\ wkind[v] = "generic" /\ wbase[w] = wbase[v]) => wform[w] = wform[v]

C7_Witness ==
    /\ wstate[1] = "alive" /\ wstate[2] = "alive"
    /\ wbase[1] = "bool" /\ wbase[2] = "bool"
    /\ m_func[1].id # m_func[2].id
    /\ wform[1] = "flat"

\* C8: what the callable raises during a call of a wrapper's call operator is what
\* the caller of the operator sees; the callable has been called once for that
\* call, and the wrapper holds the same callable afterwards.
C8_FailurePropagates ==
    lastCall.kind # "none" =>
        /\ lastCall.seen = lastCall.raised
        /\ Len(lastCall.ran) = 1
        /\ lastCall.holds = lastCall.held

C8_Witness ==
    /\ lastCall.kind = "variadic"
    /\ lastCall.raised = "E1"
    /\ lastCall.seen = "E1"
    /\ \E w \in Wrappers : wstate[w] = "alive" /\ m_func[w] = [id |-> lastCall.held, x |-> 2]

====
